---------------------------- MODULE Spec2Model ----------------------------
(***************************************************************************)
(* Offline-first synchronisation engine of the gift planner:               *)
(*   - IDBWrapper (src/src/js/db/idb-wrapper.js): the local stores, the    *)
(*     sync queue and upsert with Last-Write-Wins;                         *)
(*   - SyncManager (src/unnamed/part_008): processQueue, syncAll,          *)
(*     pushToServer, pullFromServer, handleDeletedRecords;                 *)
(*   - HolidayService / GiftService (src/unnamed/part_007) and             *)
(*     RecipientService: local CRUD, cascade delete, enqueueing;           *)
(*   - AuthService: the session state the engine reads.                    *)
(*                                                                         *)
(* Timestamps are naturals (the clock "now"); 0 stands for null, undefined *)
(* and an absent ISO string.  A JavaScript object is a function from its   *)
(* keys to values, so the spread {...a, ...b} is  b @@ a.                  *)
(***************************************************************************)
EXTENDS Naturals, Integers, Sequences, FiniteSets, TLC

\* ------------------------------------------------------------------ bounds
MaxTime == 2
MaxCalls == 3
NumNames == 2
MaxHolidays == 1
MaxRecipients == 2
MaxGifts == 2
MaxTasks == 2
MaxQueue == 1
MaxStaleQueue == 2
MaxAttempts == 4
MaxSlots == 3

\* ------------------------------------------------------- program constants
MAX_RETRIES == 3

VARIABLES
  now,                \* the wall clock read by new Date()
  online,             \* navigator.onLine
  currentUser,        \* AuthService.currentUser?.id, NoUser when signed out
  db,                 \* IndexedDB: store name -> the records of the store, keyed by id
  syncQueue,          \* IndexedDB store 'syncQueue': the queue entries, keyed by id
  nextId,             \* the ids crypto.randomUUID() has not handed out yet, per store
  configured,         \* isSupabaseConfigured(): SyncManager.init(authService) was called
  isSyncing,          \* SyncManager.isSyncing
  lastSyncTimestamp,  \* SyncManager.lastSyncTimestamp / localStorage giftplanner_lastSync
  syncInterval,       \* SyncManager.syncInterval is set (the periodic timer exists)
  remote,             \* the Supabase tables: table -> the rows, keyed by id
  tasks,              \* the async calls of processQueue / syncAll in flight
  hist,               \* history per queue entry: attempts, success, removal
  emitted,            \* events the services and the SyncManager handed to eventBus.emit
                      \* in the last step, in order
  calls,              \* history: the number of upsert calls made
  best,               \* history: the call with the maximum comparison timestamp, the last of them
  migrated,           \* the users with a giftplanner_migrated_<userId> key in localStorage
  timers,             \* the intervals set by setInterval and not cleared
  last                \* history: the upsert call of the last step, the record it met, its outcome

engineVars == <<configured, isSyncing, lastSyncTimestamp, syncInterval, remote, tasks, hist>>
vars == <<now, online, currentUser, db, syncQueue, nextId, engineVars, emitted, calls, best, migrated, timers, last>>

NullTs == 0
NoUser == 0
TheUser == 1
\* the user of another session on the same device
OtherUser == 2
NoRec == [none |-> TRUE]
Idle == [kind |-> "idle"]
Stores == {"holidays", "recipients", "gifts"}
Names == 1..NumNames

LastIs(op) == last # NoRec /\ last.op = op

\* ----------------------------------------------------------- JS objects
Has(r, k) == k \in DOMAIN r

\* obj.k || 0 for a timestamp field: undefined and null are falsy
Field(r, k) == IF Has(r, k) THEN r[k] ELSE NullTs

\* { ...a, ...b }
Spread(a, b) == b @@ a

\* the key after key.replace(/[A-Z]/g, letter => `_${letter.toLowerCase()}`)
SnakeKey(k) ==
  CASE k = "userId" -> "user_id"
    [] k = "createdAt" -> "created_at"
    [] k = "updatedAt" -> "updated_at"
    [] k = "deletedAt" -> "deleted_at"
    [] k = "holidayId" -> "holiday_id"
    [] k = "recipientId" -> "recipient_id"
    [] OTHER -> k

\* the key after key.replace(/_([a-z])/g, (_, letter) => letter.toUpperCase())
CamelKey(k) ==
  CASE k = "user_id" -> "userId"
    [] k = "created_at" -> "createdAt"
    [] k = "updated_at" -> "updatedAt"
    [] k = "deleted_at" -> "deletedAt"
    [] k = "holiday_id" -> "holidayId"
    [] k = "recipient_id" -> "recipientId"
    [] OTHER -> k

toSnakeCase(obj) ==
  [sk \in {SnakeKey(k) : k \in DOMAIN obj} |->
     obj[CHOOSE k \in DOMAIN obj : SnakeKey(k) = sk]]

toCamelCase(obj) ==
  [ck \in {CamelKey(k) : k \in DOMAIN obj} |->
     obj[CHOOSE k \in DOMAIN obj : CamelKey(k) = ck]]

\* ------------------------------------------------------- keyed stores
\* an object store with keyPath 'id' is the set of its records
Ids(S) == {r.id : r \in S}
GetIn(S, id) == IF id \in Ids(S) THEN CHOOSE r \in S : r.id = id ELSE NoRec
PutIn(S, rec) == {r \in S : r.id # rec.id} \cup {rec}
DeleteIn(S, id) == {r \in S : r.id # id}

\* ------------------------------------------------------------ IDBWrapper
Get(store, id) == GetIn(db[store], id)

Put(d, store, rec) == [d EXCEPT ![store] = PutIn(@, rec)]

Delete(d, store, id) == [d EXCEPT ![store] = DeleteIn(@, id)]

\* new Date(x.updatedAt || x.createdAt || 0)
CompareTs(r) ==
  IF Field(r, "updatedAt") # NullTs THEN r.updatedAt ELSE Field(r, "createdAt")

\* incomingUpdated >= existingUpdated
MutIncomingWinsStrict(incoming, existing) == incoming > existing
IncomingWins(incoming, existing) == incoming >= existing

\* IDBWrapper.upsert: the action, the record returned and the store after it
Upsert(d, store, data) ==
  LET existing == GetIn(d[store], data.id)
  IN IF existing # NoRec
       THEN IF IncomingWins(CompareTs(data), CompareTs(existing))
              THEN LET merged == Spread(Spread(existing, data), [updatedAt |-> now])
                   IN [action |-> "updated", data |-> merged, db |-> Put(d, store, merged)]
              ELSE [action |-> "skipped", data |-> existing, db |-> d]
       ELSE LET created == IF Field(data, "createdAt") # NullTs THEN data.createdAt ELSE now
                newData == Spread(data, [createdAt |-> created])
            IN [action |-> "created", data |-> newData, db |-> Put(d, store, newData)]

\* ------------------------------------------------------------ SyncManager
\* eventMap[entityType]?.[action]
DataEventName(entityType, action) ==
  CASE entityType = "holidays" /\ action = "created" -> "holiday:created"
    [] entityType = "holidays" /\ action = "updated" -> "holiday:updated"
    [] entityType = "recipients" /\ action = "created" -> "recipient:created"
    [] entityType = "recipients" /\ action = "updated" -> "recipient:updated"
    [] entityType = "gifts" /\ action = "created" -> "gift:created"
    [] entityType = "gifts" /\ action = "updated" -> "gift:updated"
    [] OTHER -> "none"

emitDataEvent(entityType, action, data) ==
  LET event == DataEventName(entityType, action)
  IN IF event # "none" THEN <<[type |-> event, data |-> data]>> ELSE <<>>

\* result.action !== 'skipped'
EmitsFor(action) == action # "skipped"

\* pullFromServer, the body of the loop over the fetched rows
PullApplyRow(d, entityType, row) ==
  LET camelCaseItem == toCamelCase(row)
      result == Upsert(d, entityType, camelCaseItem)
  IN [db |-> result.db,
      action |-> result.action,
      incoming |-> camelCaseItem,
      events |-> IF EmitsFor(result.action)
                   THEN emitDataEvent(entityType, result.action, result.data)
                   ELSE <<>>]

\* ------------------------------------------------------------------------
\* Upserts of remote rows of one id into one store, in any order
\* ------------------------------------------------------------------------
TheId == 1

\* rows a select('*') can return for the id: updated_at and created_at may be
\* null, the optional column may be missing from the projection
RemoteRows ==
  { Spread([id |-> TheId, name |-> n, updated_at |-> u, created_at |-> c,
            deleted_at |-> NullTs], x) :
      n \in Names, u \in 0..MaxTime, c \in {NullTs, 1},
      x \in { <<>>, [note |-> 1] } }

InitUpsert ==
  /\ now = 1
  /\ db = [s \in Stores |-> {}]
  /\ online = TRUE
  /\ currentUser = TheUser
  /\ syncQueue = {}
  /\ nextId = [s \in Stores \cup {"syncQueue"} |-> 1]
  /\ configured = TRUE
  /\ isSyncing = FALSE
  /\ lastSyncTimestamp = NullTs
  /\ syncInterval = FALSE
  /\ remote = [s \in Stores |-> {}]
  /\ tasks = [t \in 1..MaxTasks |-> Idle]
  /\ hist = <<>>
  /\ emitted = <<>>
  /\ calls = 0
  /\ best = NoRec
  /\ migrated = {}
  /\ timers = 0
  /\ last = NoRec

Tick ==
  /\ now < MaxTime
  /\ now' = now + 1
  /\ emitted' = <<>>
  /\ last' = NoRec
  /\ UNCHANGED <<db, calls, best, migrated, timers, online, currentUser, syncQueue, nextId, engineVars>>

\* the call carries an updatedAt, and one that is not in the future
Stamped(data) ==
  Field(data, "updatedAt") # NullTs /\ data.updatedAt <= now

PullRow(row) ==
  /\ calls < MaxCalls
  /\ LET r == PullApplyRow(db, "holidays", row)
         ts == CompareTs(r.incoming)
     IN /\ db' = r.db
        /\ emitted' = r.events
        /\ calls' = calls + 1
        /\ best' = IF best = NoRec \/ ts >= best.ts
                     THEN [ts |-> ts, name |-> r.incoming.name,
                           stamped |-> (best = NoRec \/ best.stamped) /\ Stamped(r.incoming)]
                     ELSE [best EXCEPT !.stamped = @ /\ Stamped(r.incoming)]
        /\ last' = [op |-> "upsert", prev |-> Get("holidays", TheId), data |-> r.incoming,
                    action |-> r.action]
  /\ UNCHANGED <<now, online, currentUser, syncQueue, nextId, engineVars, migrated, timers>>

NextUpsert ==
  \/ Tick
  \/ \E row \in RemoteRows : PullRow(row)

SpecUpsert == InitUpsert /\ [][NextUpsert]_vars


\* ------------------------------------------------------------------------
\* Domain services: local CRUD with cascade delete and enqueueing
\* ------------------------------------------------------------------------
\* AuthService.isAuthenticated: !!this.currentUser
isAuthenticated == currentUser # NoUser

\* A service call threads the local stores, the queue, the id source and the
\* events through its awaits: st = [db, q, ids, ev].
SvcState == [db |-> db, q |-> syncQueue, ids |-> nextId, ev |-> <<>>]

Emit(st, type, data) == [st EXCEPT !.ev = Append(@, [type |-> type, data |-> data])]

\* IDBWrapper.addToSyncQueue
addToSyncQueue(st, operation) ==
  LET queueItem == Spread(Spread([id |-> st.ids["syncQueue"]], operation),
                          [createdAt |-> now, retries |-> 0])
  IN [st EXCEPT !.q = PutIn(@, queueItem),
                !.ids["syncQueue"] = @ + 1]

\* SyncManager.queueOperation, up to the enqueue (the drain it may start is a
\* pass of its own)
queueOperation(st, operation, entityType, entityId, data) ==
  addToSyncQueue(st, [operation |-> operation, entityType |-> entityType,
                      entityId |-> entityId, data |-> data, userId |-> currentUser])

\* IDBWrapper.add
dbAdd(st, store, data) ==
  LET id == st.ids[store]
      dataWithId == Spread(data, [id |-> id, createdAt |-> now])
  IN [st EXCEPT !.db = Put(@, store, dataWithId), !.ids[store] = @ + 1]

\* GiftService.delete
GiftServiceDelete(st, id) ==
  Emit([st EXCEPT !.db = Delete(@, "gifts", id)], "gift:deleted", id)

MinOf(S) == CHOOSE x \in S : \A y \in S : x <= y

\* for (const gift of gifts) await giftService.delete(gift.id), in key order
RECURSIVE DeleteGifts(_, _)
DeleteGifts(st, ids) ==
  IF ids = {} THEN st
  ELSE DeleteGifts(GiftServiceDelete(st, MinOf(ids)), ids \ {MinOf(ids)})

\* the guard of the enqueue after a delete: auth?.isAuthenticated()
EnqueuesDelete == isAuthenticated

\* RecipientService.delete
RecipientServiceDelete(st, id) ==
  LET gifts == {g.id : g \in {x \in st.db["gifts"] : x.recipientId = id}}
      s1 == DeleteGifts(st, gifts)
      s2 == Emit([s1 EXCEPT !.db = Delete(@, "recipients", id)], "recipient:deleted", id)
  IN IF EnqueuesDelete THEN queueOperation(s2, "delete", "recipients", id, NoRec) ELSE s2

\* for (const recipient of recipients) await recipientService.delete(recipient.id)
RECURSIVE DeleteRecipients(_, _)
DeleteRecipients(st, ids) ==
  IF ids = {} THEN st
  ELSE DeleteRecipients(RecipientServiceDelete(st, MinOf(ids)), ids \ {MinOf(ids)})

\* HolidayService.delete
HolidayServiceDelete(st, id) ==
  LET recipients == {r.id : r \in {x \in st.db["recipients"] : x.holidayId = id}}
      s1 == DeleteRecipients(st, recipients)
      s2 == Emit([s1 EXCEPT !.db = Delete(@, "holidays", id)], "holiday:deleted", id)
  IN IF EnqueuesDelete THEN queueOperation(s2, "delete", "holidays", id, NoRec) ELSE s2

\* HolidayService.create
HolidayServiceCreate(st, name) ==
  LET id == st.ids["holidays"]
      s1 == dbAdd(st, "holidays", [name |-> name, userId |-> currentUser])
      holiday == GetIn(s1.db["holidays"], id)
      s2 == Emit(s1, "holiday:created", holiday)
  IN IF currentUser # NoUser
       THEN queueOperation(s2, "create", "holidays", id, holiday) ELSE s2

\* RecipientService.create
RecipientServiceCreate(st, holidayId, name) ==
  LET id == st.ids["recipients"]
      s1 == dbAdd(st, "recipients",
                  [holidayId |-> holidayId, name |-> name, userId |-> currentUser])
      recipient == GetIn(s1.db["recipients"], id)
      s2 == Emit(s1, "recipient:created", recipient)
  IN IF currentUser # NoUser
       THEN queueOperation(s2, "create", "recipients", id, recipient) ELSE s2

\* GiftService.create
GiftServiceCreate(st, recipientId, holidayId, name) ==
  LET id == st.ids["gifts"]
      s1 == dbAdd(st, "gifts",
                  [recipientId |-> recipientId, holidayId |-> holidayId, name |-> name])
  IN Emit(s1, "gift:created", GetIn(s1.db["gifts"], id))

Refs(d, store, holidayId) ==
  {r.id : r \in {x \in d[store] : x.holidayId = holidayId}}

Commit(st) ==
  /\ db' = st.db
  /\ syncQueue' = st.q
  /\ nextId' = st.ids
  /\ emitted' = st.ev

InitCascade ==
  /\ now = 1
  /\ online \in BOOLEAN
  /\ currentUser \in {NoUser, TheUser}
  /\ db = [s \in Stores |-> {}]
  /\ syncQueue = {}
  /\ nextId = [s \in Stores \cup {"syncQueue"} |-> 1]
  /\ configured = TRUE
  /\ isSyncing = FALSE
  /\ lastSyncTimestamp = NullTs
  /\ syncInterval = FALSE
  /\ remote = [s \in Stores |-> {}]
  /\ tasks = [t \in 1..MaxTasks |-> Idle]
  /\ hist = <<>>
  /\ emitted = <<>>
  /\ calls = 0
  /\ best = NoRec
  /\ migrated = {}
  /\ timers = 0
  /\ last = NoRec

cascadeFrame == <<now, calls, best, migrated, timers, engineVars>>

\* history: the service call of the step, and the first queue id it could use
SvcCall(operation, entityType, entityId) ==
  [op |-> "service",
   svc |-> [operation |-> operation, entityType |-> entityType, entityId |-> entityId],
   from |-> nextId["syncQueue"]]

\* AuthService.handleAuthChange: SIGNED_IN / SIGNED_OUT
CascadeSignIn ==
  /\ currentUser = NoUser
  /\ currentUser' = TheUser
  /\ emitted' = <<>>
  /\ last' = NoRec
  /\ UNCHANGED <<online, db, syncQueue, nextId, cascadeFrame>>

CascadeSignOut ==
  /\ currentUser # NoUser
  /\ currentUser' = NoUser
  /\ emitted' = <<>>
  /\ last' = NoRec
  /\ UNCHANGED <<online, db, syncQueue, nextId, cascadeFrame>>

\* AuthService.handleOnline / handleOffline
CascadeNetwork ==
  /\ online' = ~online
  /\ emitted' = <<>>
  /\ last' = NoRec
  /\ UNCHANGED <<currentUser, db, syncQueue, nextId, cascadeFrame>>

CascadeCreateHoliday ==
  /\ nextId["holidays"] <= MaxHolidays
  /\ Commit(HolidayServiceCreate(SvcState, 1))
  /\ last' = SvcCall("create", "holidays", nextId["holidays"])
  /\ UNCHANGED <<online, currentUser, cascadeFrame>>

\* RecipientModal: a recipient is created on the page of an existing holiday
CascadeCreateRecipient(h) ==
  /\ nextId["recipients"] <= MaxRecipients
  /\ h \in Ids(db["holidays"])
  /\ Commit(RecipientServiceCreate(SvcState, h, 1))
  /\ last' = SvcCall("create", "recipients", nextId["recipients"])
  /\ UNCHANGED <<online, currentUser, cascadeFrame>>

\* GiftModal: a gift is created on the page of an existing recipient, with
\* that recipient's holiday
CascadeCreateGift(r) ==
  /\ nextId["gifts"] <= MaxGifts
  /\ r \in Ids(db["recipients"])
  /\ Commit(GiftServiceCreate(SvcState, r, Get("recipients", r).holidayId, 1))
  /\ last' = SvcCall("create", "gifts", nextId["gifts"])
  /\ UNCHANGED <<online, currentUser, cascadeFrame>>

CascadeDeleteGift(g) ==
  /\ g \in Ids(db["gifts"])
  /\ Commit(GiftServiceDelete(SvcState, g))
  /\ last' = SvcCall("delete", "gifts", g)
  /\ UNCHANGED <<online, currentUser, cascadeFrame>>

CascadeDeleteRecipient(r) ==
  /\ r \in Ids(db["recipients"])
  /\ Commit(RecipientServiceDelete(SvcState, r))
  /\ last' = SvcCall("delete", "recipients", r)
  /\ UNCHANGED <<online, currentUser, cascadeFrame>>

CascadeDeleteHoliday(h) ==
  /\ h \in Ids(db["holidays"])
  /\ LET st == HolidayServiceDelete(SvcState, h)
     IN /\ Commit(st)
        /\ last' = [op |-> "holidayDelete", id |-> h,
                    svc |-> SvcCall("delete", "holidays", h).svc,
                    from |-> nextId["syncQueue"],
                    authenticated |-> isAuthenticated,
                    N |-> Cardinality(Refs(db, "recipients", h)),
                    M |-> Cardinality(Refs(db, "gifts", h)),
                    attached |-> \A g \in Refs(db, "gifts", h) :
                                    Get("gifts", g).recipientId \in Refs(db, "recipients", h),
                    enqueued |-> st.ids["syncQueue"] - nextId["syncQueue"]]
  /\ UNCHANGED <<online, currentUser, cascadeFrame>>

\* SyncManager.handleDeletedRecords, the loop body for one id the remote
\* reports as tombstoned (soft-deleted there by another device of the user);
\* only records that were pushed (they carry a userId and no entry for them
\* is pending) have a remote row.
CascadePullTombstone(entityType, id) ==
  /\ online /\ isAuthenticated
  /\ id \in Ids(db[entityType])
  /\ Field(Get(entityType, id), "userId") # NoUser
  /\ \A q \in syncQueue : ~(q.entityType = entityType /\ q.entityId = id)
  /\ db' = Delete(db, entityType, id)
  /\ emitted' = <<[type |-> IF entityType = "holidays" THEN "holiday:deleted"
                            ELSE "recipient:deleted", data |-> id]>>
  /\ last' = NoRec
  /\ UNCHANGED <<online, currentUser, syncQueue, nextId, cascadeFrame>>

\* SyncManager.processQueue as far as the queue is concerned when every remote
\* apply succeeds: each entry read is removed
CascadeDrain ==
  /\ online /\ isAuthenticated
  /\ syncQueue # {}
  /\ syncQueue' = {}
  /\ emitted' = <<[type |-> "sync:started", data |-> NoRec],
                  [type |-> "sync:completed", data |-> NoRec]>>
  /\ last' = NoRec
  /\ UNCHANGED <<online, currentUser, db, nextId, cascadeFrame>>

NextCascade ==
  \/ CascadeSignIn
  \/ CascadeSignOut
  \/ CascadeNetwork
  \/ CascadeCreateHoliday
  \/ \E h \in 1..MaxHolidays : CascadeCreateRecipient(h)
  \/ \E r \in 1..MaxRecipients : CascadeCreateGift(r)
  \/ \E g \in 1..MaxGifts : CascadeDeleteGift(g)
  \/ \E r \in 1..MaxRecipients : CascadeDeleteRecipient(r)
  \/ \E h \in 1..MaxHolidays : CascadeDeleteHoliday(h)
  \/ \E r \in 1..MaxRecipients : CascadePullTombstone("recipients", r)
  \/ \E h \in 1..MaxHolidays : CascadePullTombstone("holidays", h)
  \/ CascadeDrain

SpecCascade == InitCascade /\ [][NextCascade]_vars


\* ------------------------------------------------------------------------
\* The synchronisation engine: triggers, processQueue and syncAll as
\* interleaved async calls, the remote tables
\* ------------------------------------------------------------------------
\* this.authService?.isAuthenticated(): authService is null until init()
AuthOK == configured /\ currentUser # NoUser

MutPullOrderRecipientsFirst == <<"recipients", "holidays", "gifts">>
PullOrder == <<"holidays", "recipients", "gifts">>

\* an async call of processQueue ("pq") or syncAll ("sa") suspended at an await;
\* sc and ec are successCount and errorCount, res is the history of what the
\* loop did with each entry it has finished
NewTask(kind, pc) ==
  [kind |-> kind, pc |-> pc, queue |-> <<>>, i |-> 0, got |-> NoRec,
   sc |-> 0, ec |-> 0, res |-> <<>>]

HasFree(ts) == \E t \in DOMAIN ts : ts[t] = Idle
FreeSlot(ts) == MinOf({t \in DOMAIN ts : ts[t] = Idle})
Start(ts, task) == [ts EXCEPT ![FreeSlot(ts)] = task]

At(t, kind, pc) == tasks[t] # Idle /\ tasks[t].kind = kind /\ tasks[t].pc = pc
Item(t) == tasks[t].queue[tasks[t].i]

\* IDBWrapper.getSyncQueue: getAll, sorted by createdAt; entries of one instant
\* come in key order, which is the order of their random UUIDs
getSyncQueue(q) ==
  {f \in [1..Cardinality(q) -> q] :
     /\ \A i, j \in DOMAIN f : i # j => f[i] # f[j]
     /\ \A i, j \in DOMAIN f : i < j => f[i].createdAt <= f[j].createdAt}

\* the guard of processQueue
ProcessQueueBlocked(syncing, auth) == syncing \/ ~auth

\* the guard of syncAll
MutSyncAllBlockedNoOnline(syncing, auth, onl) == syncing \/ ~auth
SyncAllBlocked(syncing, auth, onl) == syncing \/ ~auth \/ ~onl

\* SyncManager.processQueue up to its first await
processQueue(ts, auth) ==
  IF ProcessQueueBlocked(isSyncing, auth) THEN ts
  ELSE Start(ts, NewTask("pq", "getQueue"))

\* SyncManager.syncAll up to its first await
syncAll(ts, auth, onl) ==
  IF SyncAllBlocked(isSyncing, auth, onl)
    THEN [tasks |-> ts, isSyncing |-> isSyncing, ev |-> <<>>]
    ELSE [tasks |-> Start(ts, NewTask("sa", "getQueue")), isSyncing |-> TRUE,
          ev |-> <<[type |-> "sync:started", data |-> NoRec]>>]

\* the history of the queue entries 1..n: entries not seen before start fresh
FreshHist == [fails |-> 0, ok |-> FALSE, gone |-> FALSE, dropped |-> FALSE]
HistFor(n) == [q \in 1..n |-> IF q <= Len(hist) THEN hist[q] ELSE FreshHist]

\* ---- the Supabase tables (schema, RLS and trigger of PLAN_SUPABASE_INTEGRATION.md)
\* upsert(payload, { onConflict: 'id' }): an insert takes the column defaults,
\* an update fires the trigger that sets updated_at = NOW()
RemoteUpsert(r, entityType, payload) ==
  LET existing == GetIn(r[entityType], payload.id)
      row == IF existing = NoRec
               THEN Spread([created_at |-> now, updated_at |-> now, deleted_at |-> NullTs],
                           payload)
               ELSE Spread(Spread(existing, payload), [updated_at |-> now])
  IN [r EXCEPT ![entityType] = PutIn(@, row)]

\* update({ deleted_at: now }).eq('id', entityId)
MutRemoteHardDelete(r, entityType, entityId) ==
  [r EXCEPT ![entityType] = DeleteIn(@, entityId)]
RemoteSoftDelete(r, entityType, entityId) ==
  LET existing == GetIn(r[entityType], entityId)
  IN IF existing = NoRec \/ existing.user_id # currentUser THEN r
     ELSE [r EXCEPT ![entityType] =
             PutIn(@, Spread(existing, [deleted_at |-> now, updated_at |-> now]))]

\* the policy auth.uid() = user_id on the row an upsert would update: a row
\* owned by another user makes the call report an error
RemoteAccepts(item) ==
  item.operation \in {"create", "update"} =>
    LET existing == GetIn(remote[item.entityType], item.entityId)
    IN IF existing = NoRec THEN TRUE ELSE existing.user_id = currentUser

\* SyncManager.processSyncItem when the remote call reports no error
processSyncItem(r, item) ==
  IF item.operation \in {"create", "update"}
    THEN RemoteUpsert(r, item.entityType,
                      toSnakeCase(Spread(item.data,
                                         [id |-> item.entityId, userId |-> currentUser])))
    ELSE RemoteSoftDelete(r, item.entityType, item.entityId)

\* rows the policy auth.uid() = user_id lets the session see
Visible(rows) == {row \in rows : currentUser # NoUser /\ row.user_id = currentUser}

\* select('*').is('deleted_at', null) [.gte('updated_at', lastSyncTimestamp)]
PullQuery(entityType) ==
  {row \in Visible(remote[entityType]) :
     /\ row.deleted_at = NullTs
     /\ (lastSyncTimestamp # NullTs => row.updated_at >= lastSyncTimestamp)}

\* select('id').not('deleted_at', 'is', null)
TombstoneQuery(entityType) ==
  {row.id : row \in {x \in Visible(remote[entityType]) : x.deleted_at # NullTs}}

\* for (const item of data || []) { upsert; emit unless skipped }
RECURSIVE PullApplyRows(_, _, _, _)
PullApplyRows(d, ev, entityType, rows) ==
  IF rows = {} THEN [db |-> d, ev |-> ev]
  ELSE LET row == CHOOSE x \in rows : \A y \in rows : x.id <= y.id
           r == PullApplyRow(d, entityType, row)
       IN PullApplyRows(r.db, ev \o r.events, entityType, rows \ {row})

\* SyncManager.emitDeleteEvent
DeleteEventName(entityType) ==
  CASE entityType = "holidays" -> "holiday:deleted"
    [] entityType = "recipients" -> "recipient:deleted"
    [] entityType = "gifts" -> "gift:deleted"
    [] OTHER -> "none"

\* const existing = await db.get(entityType, item.id); if (existing)
MutExistsAlways(d, entityType, id) == TRUE
ExistsLocally(d, entityType, id) == GetIn(d[entityType], id) # NoRec

\* SyncManager.handleDeletedRecords for the ids the query returned
RECURSIVE handleDeletedRecords(_, _, _, _)
handleDeletedRecords(d, ev, entityType, ids) ==
  IF ids = {} THEN [db |-> d, ev |-> ev]
  ELSE LET id == MinOf(ids)
       IN IF ExistsLocally(d, entityType, id)
            THEN handleDeletedRecords(Delete(d, entityType, id),
                                      Append(ev, [type |-> DeleteEventName(entityType),
                                                  data |-> id]),
                                      entityType, ids \ {id})
            ELSE handleDeletedRecords(d, ev, entityType, ids \ {id})

\* HolidayService.update
HolidayServiceUpdate(st, id, data) ==
  LET holiday == GetIn(st.db["holidays"], id)
      updatedHoliday == Spread(Spread(Spread(holiday, data), [id |-> id]),
                               [updatedAt |-> now])
      s1 == Emit([st EXCEPT !.db = Put(@, "holidays", updatedHoliday)],
                 "holiday:updated", updatedHoliday)
  IN IF isAuthenticated
       THEN queueOperation(s1, "update", "holidays", id, updatedHoliday) ELSE s1

Init ==
  /\ now = 1
  /\ online \in BOOLEAN
  /\ configured \in BOOLEAN
  /\ currentUser = NoUser
  /\ db = [s \in Stores |-> {}]
  /\ syncQueue = {}
  /\ nextId = [s \in Stores \cup {"syncQueue"} |-> 1]
  /\ isSyncing = FALSE
  /\ lastSyncTimestamp = NullTs
  /\ syncInterval = FALSE
  /\ remote = [s \in Stores |-> {}]
  /\ tasks = [t \in 1..MaxTasks |-> Idle]
  /\ hist = <<>>
  /\ emitted = <<>>
  /\ calls = 0
  /\ best = NoRec
  /\ migrated = {}
  /\ timers = 0
  /\ last = NoRec

\* ---- the periodic timer: this.syncInterval and the intervals that exist
Timer == [syncInterval |-> syncInterval, timers |-> timers]

\* SyncManager.stopPeriodicSync
stopPeriodicSync(tm) ==
  IF tm.syncInterval THEN [syncInterval |-> FALSE, timers |-> tm.timers - 1] ELSE tm

\* SyncManager.startPeriodicSync
startPeriodicSync(tm) ==
  [syncInterval |-> TRUE, timers |-> stopPeriodicSync(tm).timers + 1]

SetTimer(tm) == syncInterval' = tm.syncInterval /\ timers' = tm.timers

\* ---- triggers
\* handleAuthChange (SIGNED_IN, TOKEN_REFRESHED, INITIAL_SESSION with a user) and
\* the AUTH_STATE_CHANGED listener: startPeriodicSync(); syncAll()
SignIn ==
  /\ configured
  /\ ~SyncAllBlocked(isSyncing, TRUE, online) => HasFree(tasks)
  /\ LET r == syncAll(tasks, TRUE, online)
     IN /\ currentUser' = TheUser
        /\ SetTimer(startPeriodicSync(Timer))
        /\ tasks' = r.tasks
        /\ isSyncing' = r.isSyncing
        /\ emitted' = r.ev
  /\ last' = NoRec
  /\ UNCHANGED <<now, online, db, syncQueue, nextId, configured, lastSyncTimestamp,
                 remote, hist, calls, best, migrated>>

\* handleAuthChange (SIGNED_OUT) and the listener: stopPeriodicSync()
SignOut ==
  /\ configured
  /\ currentUser # NoUser
  /\ currentUser' = NoUser
  /\ SetTimer(stopPeriodicSync(Timer))
  /\ emitted' = <<>>
  /\ last' = NoRec
  /\ UNCHANGED <<now, online, db, syncQueue, nextId, configured, isSyncing,
                 lastSyncTimestamp, remote, tasks, hist, calls, best, migrated>>

\* handleOnline and the NETWORK_STATUS_CHANGED listener: processQueue()
GoOnline ==
  /\ ~online
  /\ ~ProcessQueueBlocked(isSyncing, AuthOK) => HasFree(tasks)
  /\ online' = TRUE
  /\ tasks' = processQueue(tasks, AuthOK)
  /\ emitted' = <<>>
  /\ last' = NoRec
  /\ UNCHANGED <<now, currentUser, db, syncQueue, nextId, configured, isSyncing,
                 lastSyncTimestamp, syncInterval, remote, hist, calls, best, migrated, timers>>

\* handleOffline
GoOffline ==
  /\ online
  /\ online' = FALSE
  /\ emitted' = <<>>
  /\ last' = NoRec
  /\ UNCHANGED <<now, currentUser, db, syncQueue, nextId, engineVars, calls, best, migrated, timers>>

\* the callback of setInterval in startPeriodicSync
PeriodicSync ==
  /\ syncInterval
  /\ online /\ AuthOK
  /\ ~SyncAllBlocked(isSyncing, AuthOK, online) => HasFree(tasks)
  /\ LET r == syncAll(tasks, AuthOK, online)
     IN /\ tasks' = r.tasks
        /\ isSyncing' = r.isSyncing
        /\ emitted' = r.ev
  /\ last' = [op |-> "syncAll"]
  /\ UNCHANGED <<now, online, currentUser, db, syncQueue, nextId, configured,
                 lastSyncTimestamp, syncInterval, remote, hist, calls, best, migrated, timers>>

\* syncManager.syncAll() called from the page (RecipientsList), in any state
ManualSync ==
  /\ ~SyncAllBlocked(isSyncing, AuthOK, online) => HasFree(tasks)
  /\ LET r == syncAll(tasks, AuthOK, online)
     IN /\ tasks' = r.tasks
        /\ isSyncing' = r.isSyncing
        /\ emitted' = r.ev
  /\ last' = [op |-> "syncAll"]
  /\ UNCHANGED <<now, online, currentUser, db, syncQueue, nextId, configured,
                 lastSyncTimestamp, syncInterval, remote, hist, calls, best, migrated, timers>>

\* ---- local edits of the holiday, each followed by queueOperation's
\* if (navigator.onLine && isAuthenticated()) this.processQueue()
LocalEdit(st, cap) ==
  LET enqueued == st.ids["syncQueue"] # nextId["syncQueue"]
      drains == enqueued /\ online /\ AuthOK
  IN /\ enqueued => nextId["syncQueue"] <= cap
     /\ (drains /\ ~ProcessQueueBlocked(isSyncing, AuthOK)) => HasFree(tasks)
     /\ Commit(st)
     /\ hist' = HistFor(st.ids["syncQueue"] - 1)
     /\ tasks' = IF drains THEN processQueue(tasks, AuthOK) ELSE tasks
     /\ last' = NoRec
     /\ UNCHANGED <<now, online, currentUser, configured, isSyncing, lastSyncTimestamp,
                    syncInterval, remote, calls, best, migrated, timers>>

CreateHoliday(cap) ==
  /\ nextId["holidays"] <= MaxHolidays
  /\ LocalEdit(HolidayServiceCreate(SvcState, 1), cap)

\* the n-th edit of the holiday writes the name n, at a later instant than
\* the version it edits
UpdateHoliday(cap) ==
  /\ Get("holidays", TheId) # NoRec
  /\ Get("holidays", TheId).name < NumNames
  /\ now > CompareTs(Get("holidays", TheId))
  /\ LocalEdit(HolidayServiceUpdate(SvcState, TheId,
                                    [name |-> Get("holidays", TheId).name + 1]), cap)

DeleteHoliday(cap) ==
  /\ Get("holidays", TheId) # NoRec
  /\ LocalEdit(HolidayServiceDelete(SvcState, TheId), cap)

\* the failed remote calls so far, over all entries
RECURSIVE SumFails(_)
SumFails(h) == IF h = <<>> THEN 0 ELSE Head(h).fails + SumFails(Tail(h))

\* ---- processQueue, one action per await
taskFrame == <<now, online, currentUser, nextId, configured, syncInterval, calls, best, migrated, timers>>

SetTask(t, task) == tasks' = [tasks EXCEPT ![t] = task]

Attempted(q, success) ==
  [hist EXCEPT ![q].fails = IF success THEN @ ELSE @ + 1,
               ![q].ok = @ \/ success]

\* retries >= this.MAX_RETRIES
MutDropsAtOnce(retries) == retries >= 1
DropsAt(retries) == retries >= MAX_RETRIES

\* the end of one iteration of the loop of processQueue: the next item, or
\* isSyncing = false and SYNC_COMPLETED.  outcome says how the iteration ended:
\* "removed" after a success, "dropped" at MAX_RETRIES, "bumped" when the
\* retry count was written, "lost" when updateSyncQueueItem found no item
PQNext(t, ev, outcome) ==
  LET successCount == tasks[t].sc + (IF outcome = "removed" THEN 1 ELSE 0)
      errorCount == tasks[t].ec + (IF outcome = "dropped" THEN 1 ELSE 0)
  IN IF tasks[t].i < Len(tasks[t].queue)
       THEN /\ SetTask(t, [tasks[t] EXCEPT !.pc = "apply", !.i = @ + 1, !.got = NoRec,
                                           !.sc = successCount, !.ec = errorCount,
                                           !.res = Append(@, outcome)])
            /\ isSyncing' = isSyncing
            /\ emitted' = ev
       ELSE /\ SetTask(t, Idle)
            /\ isSyncing' = FALSE
            /\ emitted' = Append(ev, [type |-> "sync:completed",
                                      data |-> [successCount |-> successCount,
                                                errorCount |-> errorCount]])

\* const queue = await db.getSyncQueue(); ...; this.isSyncing = true
PQGetQueue(t) ==
  /\ At(t, "pq", "getQueue")
  /\ \E queue \in getSyncQueue(syncQueue) :
       IF Len(queue) = 0
         THEN /\ SetTask(t, Idle)
              /\ isSyncing' = isSyncing
              /\ emitted' = <<>>
         ELSE /\ SetTask(t, [tasks[t] EXCEPT !.pc = "apply", !.queue = queue, !.i = 1])
              /\ isSyncing' = TRUE
              /\ emitted' = <<[type |-> "sync:started", data |-> NoRec]>>
  /\ last' = NoRec
  /\ UNCHANGED <<db, syncQueue, lastSyncTimestamp, remote, hist, taskFrame>>

\* await this.processSyncItem(supabase, item) resolves
PQApplyOk(t) ==
  /\ At(t, "pq", "apply")
  /\ online /\ currentUser # NoUser
  /\ RemoteAccepts(Item(t))
  /\ remote' = processSyncItem(remote, Item(t))
  /\ hist' = Attempted(Item(t).id, TRUE)
  /\ SetTask(t, [tasks[t] EXCEPT !.pc = "remove"])
  /\ emitted' = <<>>
  /\ last' = NoRec
  /\ UNCHANGED <<db, syncQueue, isSyncing, lastSyncTimestamp, taskFrame>>

\* await this.processSyncItem(supabase, item) rejects
PQApplyFail(t) ==
  /\ At(t, "pq", "apply")
  /\ SumFails(hist) < MaxAttempts
  /\ hist' = Attempted(Item(t).id, FALSE)
  /\ SetTask(t, [tasks[t] EXCEPT !.pc = IF DropsAt(Field(Item(t), "retries") + 1)
                                          THEN "drop" ELSE "updGet"])
  /\ emitted' = <<>>
  /\ last' = NoRec
  /\ UNCHANGED <<db, syncQueue, isSyncing, lastSyncTimestamp, remote, taskFrame>>

\* await db.removeSyncQueueItem(item.id) after the apply resolved
PQRemove(t) ==
  /\ At(t, "pq", "remove")
  /\ syncQueue' = DeleteIn(syncQueue, Item(t).id)
  /\ hist' = [hist EXCEPT ![Item(t).id].gone = TRUE]
  /\ PQNext(t, <<>>, "removed")
  /\ last' = NoRec
  /\ UNCHANGED <<db, lastSyncTimestamp, remote, taskFrame>>

\* await db.removeSyncQueueItem(item.id); emit SYNC_ERROR
PQDrop(t) ==
  /\ At(t, "pq", "drop")
  /\ syncQueue' = DeleteIn(syncQueue, Item(t).id)
  /\ hist' = [hist EXCEPT ![Item(t).id].dropped = TRUE]
  /\ PQNext(t, <<[type |-> "sync:error", data |-> Item(t).id]>>, "dropped")
  /\ last' = NoRec
  /\ UNCHANGED <<db, lastSyncTimestamp, remote, taskFrame>>

\* updateSyncQueueItem: const item = await this.db.get('syncQueue', id)
PQUpdGet(t) ==
  /\ At(t, "pq", "updGet")
  /\ LET item == GetIn(syncQueue, Item(t).id)
     IN IF item = NoRec
          THEN PQNext(t, <<>>, "lost")
          ELSE /\ SetTask(t, [tasks[t] EXCEPT !.pc = "updPut", !.got = item])
               /\ isSyncing' = isSyncing
               /\ emitted' = <<>>
  /\ last' = NoRec
  /\ UNCHANGED <<db, syncQueue, lastSyncTimestamp, remote, hist, taskFrame>>

\* updateSyncQueueItem: await this.db.put('syncQueue', { ...item, ...data })
PQUpdPut(t) ==
  /\ At(t, "pq", "updPut")
  /\ syncQueue' = PutIn(syncQueue, Spread(tasks[t].got,
                                          [retries |-> Field(Item(t), "retries") + 1]))
  /\ PQNext(t, <<>>, "bumped")
  /\ last' = NoRec
  /\ UNCHANGED <<db, lastSyncTimestamp, remote, hist, taskFrame>>

\* ---- syncAll, one action per await
\* the end of one iteration of the loop of pushToServer: the next item, or
\* the first pull
SANext(t) ==
  IF tasks[t].i < Len(tasks[t].queue)
    THEN SetTask(t, [tasks[t] EXCEPT !.pc = "apply", !.i = @ + 1])
    ELSE SetTask(t, [tasks[t] EXCEPT !.pc = "pull", !.i = 1, !.queue = <<>>])

\* pushToServer: const queue = await db.getSyncQueue()
SAGetQueue(t) ==
  /\ At(t, "sa", "getQueue")
  /\ \E queue \in getSyncQueue(syncQueue) :
       IF Len(queue) = 0
         THEN SetTask(t, [tasks[t] EXCEPT !.pc = "pull", !.i = 1])
         ELSE SetTask(t, [tasks[t] EXCEPT !.pc = "apply", !.queue = queue, !.i = 1])
  /\ emitted' = <<>>
  /\ last' = NoRec
  /\ UNCHANGED <<db, syncQueue, isSyncing, lastSyncTimestamp, remote, hist, taskFrame>>

SAApplyOk(t) ==
  /\ At(t, "sa", "apply")
  /\ online /\ currentUser # NoUser
  /\ RemoteAccepts(Item(t))
  /\ remote' = processSyncItem(remote, Item(t))
  /\ hist' = Attempted(Item(t).id, TRUE)
  /\ SetTask(t, [tasks[t] EXCEPT !.pc = "remove"])
  /\ emitted' = <<>>
  /\ last' = NoRec
  /\ UNCHANGED <<db, syncQueue, isSyncing, lastSyncTimestamp, taskFrame>>

\* catch (error) { console.error(...) }: the loop goes on
SAApplyFail(t) ==
  /\ At(t, "sa", "apply")
  /\ SumFails(hist) < MaxAttempts
  /\ hist' = Attempted(Item(t).id, FALSE)
  /\ SANext(t)
  /\ emitted' = <<>>
  /\ last' = NoRec
  /\ UNCHANGED <<db, syncQueue, isSyncing, lastSyncTimestamp, remote, taskFrame>>

SARemove(t) ==
  /\ At(t, "sa", "remove")
  /\ syncQueue' = DeleteIn(syncQueue, Item(t).id)
  /\ hist' = [hist EXCEPT ![Item(t).id].gone = TRUE]
  /\ SANext(t)
  /\ emitted' = <<>>
  /\ last' = NoRec
  /\ UNCHANGED <<db, isSyncing, lastSyncTimestamp, remote, taskFrame>>

\* history: a read of the remote store failed in the step, in the call t
ReadFailed(t, read) ==
  [op |-> "readFailed", read |-> read, t |-> t, watermark |-> lastSyncTimestamp,
   entityType |-> PullOrder[tasks[t].i]]

\* history: the call t pulled the next store in the step, both reads done;
\* tomb are the ids the tombstone query returned, before the ids the local
\* store held when handleDeletedRecords began
Pulled(t, tomb, before) ==
  [op |-> "pull", t |-> t, entityType |-> PullOrder[tasks[t].i],
   tomb |-> tomb, before |-> before]

\* pullFromServer of the next store without error: the upserts of the fetched
\* rows, then handleDeletedRecords, whose query may fail unnoticed; after the
\* third store the watermark and SYNC_COMPLETED
SAPullOk(t) ==
  /\ At(t, "sa", "pull")
  /\ online
  /\ \E fetched \in BOOLEAN :
       LET entityType == PullOrder[tasks[t].i]
           r1 == PullApplyRows(db, <<>>, entityType, PullQuery(entityType))
           r2 == handleDeletedRecords(r1.db, r1.ev, entityType,
                                      IF fetched THEN TombstoneQuery(entityType) ELSE {})
       IN /\ db' = r2.db
          /\ IF tasks[t].i < Len(PullOrder)
               THEN /\ SetTask(t, [tasks[t] EXCEPT !.i = @ + 1])
                    /\ emitted' = r2.ev
                    /\ UNCHANGED <<isSyncing, lastSyncTimestamp>>
               ELSE /\ SetTask(t, Idle)
                    /\ lastSyncTimestamp' = now
                    /\ isSyncing' = FALSE
                    /\ emitted' = Append(r2.ev, [type |-> "sync:completed",
                                                 data |-> [full |-> TRUE]])
          /\ last' = IF fetched
                       THEN Pulled(t, TombstoneQuery(entityType), Ids(r1.db[entityType]))
                       ELSE ReadFailed(t, "tombstones")
  /\ UNCHANGED <<syncQueue, remote, hist, taskFrame>>

\* pullFromServer throws: catch emits SYNC_ERROR, finally clears isSyncing
SAPullFail(t) ==
  /\ At(t, "sa", "pull")
  /\ SetTask(t, Idle)
  /\ isSyncing' = FALSE
  /\ emitted' = <<[type |-> "sync:error", data |-> NoRec]>>
  /\ last' = ReadFailed(t, "rows")
  /\ UNCHANGED <<db, syncQueue, lastSyncTimestamp, remote, hist, taskFrame>>

Next ==
  \/ SignIn
  \/ SignOut
  \/ GoOnline
  \/ GoOffline
  \/ PeriodicSync
  \/ ManualSync
  \/ CreateHoliday(MaxQueue)
  \/ DeleteHoliday(MaxQueue)
  \/ \E t \in DOMAIN tasks : PQGetQueue(t)
  \/ \E t \in DOMAIN tasks : PQApplyOk(t)
  \/ \E t \in DOMAIN tasks : PQApplyFail(t)
  \/ \E t \in DOMAIN tasks : PQRemove(t)
  \/ \E t \in DOMAIN tasks : PQDrop(t)
  \/ \E t \in DOMAIN tasks : PQUpdGet(t)
  \/ \E t \in DOMAIN tasks : PQUpdPut(t)
  \/ \E t \in DOMAIN tasks : SAGetQueue(t)
  \/ \E t \in DOMAIN tasks : SAApplyOk(t)
  \/ \E t \in DOMAIN tasks : SAApplyFail(t)
  \/ \E t \in DOMAIN tasks : SARemove(t)
  \/ \E t \in DOMAIN tasks : SAPullOk(t)
  \/ \E t \in DOMAIN tasks : SAPullFail(t)

Spec == Init /\ [][Next]_vars

\* ------------------------------------------------------------------------
\* Two edits of one holiday (an update, or the delete) by a signed-in user who
\* stays online: the queue
\* holds an entry per edit, the clock runs between the steps, one call of
\* processQueue or syncAll is in flight at a time.  processQueue starts only
\* from the two edits, so no entry reaches the retry count that drops it.
\* ------------------------------------------------------------------------
InitStale ==
  /\ now = 1
  /\ online = TRUE
  /\ configured = TRUE
  /\ currentUser = TheUser
  /\ db = [s \in Stores |-> {}]
  /\ syncQueue = {}
  /\ nextId = [s \in Stores \cup {"syncQueue"} |-> 1]
  /\ isSyncing = FALSE
  /\ lastSyncTimestamp = NullTs
  /\ syncInterval = TRUE
  /\ remote = [s \in Stores |-> {}]
  /\ tasks = <<Idle>>
  /\ hist = <<>>
  /\ emitted = <<>>
  /\ calls = 0
  /\ best = NoRec
  /\ migrated = {}
  /\ timers = 1
  /\ last = NoRec

NextStale ==
  \/ Tick
  \/ ManualSync
  \/ CreateHoliday(MaxStaleQueue)
  \/ UpdateHoliday(MaxStaleQueue)
  \/ DeleteHoliday(MaxStaleQueue)
  \/ \E t \in DOMAIN tasks : PQGetQueue(t)
  \/ \E t \in DOMAIN tasks : PQApplyOk(t)
  \/ \E t \in DOMAIN tasks : PQApplyFail(t)
  \/ \E t \in DOMAIN tasks : PQRemove(t)
  \/ \E t \in DOMAIN tasks : PQUpdGet(t)
  \/ \E t \in DOMAIN tasks : PQUpdPut(t)
  \/ \E t \in DOMAIN tasks : SAGetQueue(t)
  \/ \E t \in DOMAIN tasks : SAApplyOk(t)
  \/ \E t \in DOMAIN tasks : SAApplyFail(t)
  \/ \E t \in DOMAIN tasks : SARemove(t)
  \/ \E t \in DOMAIN tasks : SAPullOk(t)
  \/ \E t \in DOMAIN tasks : SAPullFail(t)

SpecStale == InitStale /\ [][NextStale]_vars

\* ------------------------------------------------------------------------
\* The passes of a signed-in client whose local store can fail: a call of
\* IndexedDB made by processQueue or pushToServer may reject.  One call of
\* processQueue or syncAll is in flight at a time.
\* ------------------------------------------------------------------------
\* processQueue: await db.getSyncQueue() rejects, before isSyncing is set
PQGetQueueThrows(t) ==
  /\ At(t, "pq", "getQueue")
  /\ SetTask(t, Idle)
  /\ emitted' = <<>>
  /\ last' = NoRec
  /\ UNCHANGED <<db, syncQueue, isSyncing, lastSyncTimestamp, remote, hist, taskFrame>>

\* processQueue: await db.removeSyncQueueItem(item.id) rejects inside the try:
\* the catch treats the entry as failed
PQRemoveThrows(t) ==
  /\ At(t, "pq", "remove")
  /\ SetTask(t, [tasks[t] EXCEPT !.pc = IF DropsAt(Field(Item(t), "retries") + 1)
                                          THEN "drop" ELSE "updGet"])
  /\ emitted' = <<>>
  /\ last' = NoRec
  /\ UNCHANGED <<db, syncQueue, isSyncing, lastSyncTimestamp, remote, hist, taskFrame>>

\* processQueue: removeSyncQueueItem or updateSyncQueueItem rejects inside the
\* catch block: the exception leaves processQueue, the lines after the loop
\* do not run
PQCatchThrows(t) ==
  /\ tasks[t] # Idle
  /\ tasks[t].kind = "pq"
  /\ tasks[t].pc \in {"drop", "updGet", "updPut"}
  /\ SetTask(t, Idle)
  /\ emitted' = <<>>
  /\ last' = NoRec
  /\ UNCHANGED <<db, syncQueue, isSyncing, lastSyncTimestamp, remote, hist, taskFrame>>

\* pushToServer: await db.getSyncQueue() rejects: the catch of syncAll emits
\* SYNC_ERROR, its finally clears isSyncing
SAGetQueueThrows(t) ==
  /\ At(t, "sa", "getQueue")
  /\ SetTask(t, Idle)
  /\ isSyncing' = FALSE
  /\ emitted' = <<[type |-> "sync:error", data |-> NoRec]>>
  /\ last' = NoRec
  /\ UNCHANGED <<db, syncQueue, lastSyncTimestamp, remote, hist, taskFrame>>

\* pushToServer: await db.removeSyncQueueItem(item.id) rejects inside the try:
\* the catch logs and the loop goes on
SARemoveThrows(t) ==
  /\ At(t, "sa", "remove")
  /\ SANext(t)
  /\ emitted' = <<>>
  /\ last' = NoRec
  /\ UNCHANGED <<db, syncQueue, isSyncing, lastSyncTimestamp, remote, hist, taskFrame>>

NextFaults ==
  \/ ManualSync
  \/ GoOnline
  \/ GoOffline
  \/ CreateHoliday(MaxQueue)
  \/ \E t \in DOMAIN tasks : PQGetQueue(t)
  \/ \E t \in DOMAIN tasks : PQApplyOk(t)
  \/ \E t \in DOMAIN tasks : PQApplyFail(t)
  \/ \E t \in DOMAIN tasks : PQRemove(t)
  \/ \E t \in DOMAIN tasks : PQDrop(t)
  \/ \E t \in DOMAIN tasks : PQUpdGet(t)
  \/ \E t \in DOMAIN tasks : PQUpdPut(t)
  \/ \E t \in DOMAIN tasks : SAGetQueue(t)
  \/ \E t \in DOMAIN tasks : SAApplyOk(t)
  \/ \E t \in DOMAIN tasks : SAApplyFail(t)
  \/ \E t \in DOMAIN tasks : SARemove(t)
  \/ \E t \in DOMAIN tasks : SAPullOk(t)
  \/ \E t \in DOMAIN tasks : SAPullFail(t)
  \/ \E t \in DOMAIN tasks : PQGetQueueThrows(t)
  \/ \E t \in DOMAIN tasks : PQRemoveThrows(t)
  \/ \E t \in DOMAIN tasks : PQCatchThrows(t)
  \/ \E t \in DOMAIN tasks : SAGetQueueThrows(t)
  \/ \E t \in DOMAIN tasks : SARemoveThrows(t)

SpecFaults == InitStale /\ [][NextFaults]_vars

\* ------------------------------------------------------------------------
\* The same client under the scheduling of the browser: the callback of
\* setInterval keeps being called while the timer exists, and every await of
\* a call in flight settles, by resolving or by rejecting.
\* ------------------------------------------------------------------------
\* the call t takes its next step: the promise it awaits settles
TaskStep(t) ==
  \/ PQGetQueue(t) \/ PQApplyOk(t) \/ PQApplyFail(t) \/ PQRemove(t) \/ PQDrop(t)
  \/ PQUpdGet(t) \/ PQUpdPut(t)
  \/ SAGetQueue(t) \/ SAApplyOk(t) \/ SAApplyFail(t) \/ SARemove(t)
  \/ SAPullOk(t) \/ SAPullFail(t)
  \/ PQGetQueueThrows(t) \/ PQRemoveThrows(t) \/ PQCatchThrows(t)
  \/ SAGetQueueThrows(t) \/ SARemoveThrows(t)

NextLive ==
  \/ PeriodicSync
  \/ ManualSync
  \/ GoOnline
  \/ GoOffline
  \/ CreateHoliday(MaxQueue)
  \/ \E t \in DOMAIN tasks : PQGetQueue(t)
  \/ \E t \in DOMAIN tasks : PQApplyOk(t)
  \/ \E t \in DOMAIN tasks : PQApplyFail(t)
  \/ \E t \in DOMAIN tasks : PQRemove(t)
  \/ \E t \in DOMAIN tasks : PQDrop(t)
  \/ \E t \in DOMAIN tasks : PQUpdGet(t)
  \/ \E t \in DOMAIN tasks : PQUpdPut(t)
  \/ \E t \in DOMAIN tasks : SAGetQueue(t)
  \/ \E t \in DOMAIN tasks : SAApplyOk(t)
  \/ \E t \in DOMAIN tasks : SAApplyFail(t)
  \/ \E t \in DOMAIN tasks : SARemove(t)
  \/ \E t \in DOMAIN tasks : SAPullOk(t)
  \/ \E t \in DOMAIN tasks : SAPullFail(t)
  \/ \E t \in DOMAIN tasks : PQGetQueueThrows(t)
  \/ \E t \in DOMAIN tasks : PQRemoveThrows(t)
  \/ \E t \in DOMAIN tasks : PQCatchThrows(t)
  \/ \E t \in DOMAIN tasks : SAGetQueueThrows(t)
  \/ \E t \in DOMAIN tasks : SARemoveThrows(t)

SpecLive ==
  /\ InitStale
  /\ [][NextLive]_vars
  /\ WF_vars(PeriodicSync)
  /\ \A t \in 1..1 : WF_vars(TaskStep(t))

\* ------------------------------------------------------------------------
\* Two users who share the device: one signs out and the other signs in, the
\* local stores and the sync queue stay as they are.
\* ------------------------------------------------------------------------
\* handleAuthChange (SIGNED_IN with the session of the user u) and the
\* AUTH_STATE_CHANGED listener: startPeriodicSync(); syncAll()
SignInAs(u) ==
  /\ configured
  /\ ~SyncAllBlocked(isSyncing, TRUE, online) => HasFree(tasks)
  /\ LET r == syncAll(tasks, TRUE, online)
     IN /\ currentUser' = u
        /\ SetTimer(startPeriodicSync(Timer))
        /\ tasks' = r.tasks
        /\ isSyncing' = r.isSyncing
        /\ emitted' = r.ev
  /\ last' = NoRec
  /\ UNCHANGED <<now, online, db, syncQueue, nextId, configured, lastSyncTimestamp,
                 remote, hist, calls, best, migrated>>

InitUsers ==
  /\ now = 1
  /\ online \in BOOLEAN
  /\ configured = TRUE
  /\ currentUser = NoUser
  /\ db = [s \in Stores |-> {}]
  /\ syncQueue = {}
  /\ nextId = [s \in Stores \cup {"syncQueue"} |-> 1]
  /\ isSyncing = FALSE
  /\ lastSyncTimestamp = NullTs
  /\ syncInterval = FALSE
  /\ remote = [s \in Stores |-> {}]
  /\ tasks = [t \in 1..MaxTasks |-> Idle]
  /\ hist = <<>>
  /\ emitted = <<>>
  /\ calls = 0
  /\ best = NoRec
  /\ migrated = {}
  /\ timers = 0
  /\ last = NoRec

NextUsers ==
  \/ \E u \in {TheUser, OtherUser} : SignInAs(u)
  \/ SignOut
  \/ GoOnline
  \/ GoOffline
  \/ CreateHoliday(MaxQueue)
  \/ \E t \in DOMAIN tasks : PQGetQueue(t)
  \/ \E t \in DOMAIN tasks : PQApplyOk(t)
  \/ \E t \in DOMAIN tasks : PQApplyFail(t)
  \/ \E t \in DOMAIN tasks : PQRemove(t)
  \/ \E t \in DOMAIN tasks : PQDrop(t)
  \/ \E t \in DOMAIN tasks : PQUpdGet(t)
  \/ \E t \in DOMAIN tasks : PQUpdPut(t)
  \/ \E t \in DOMAIN tasks : SAGetQueue(t)
  \/ \E t \in DOMAIN tasks : SAApplyOk(t)
  \/ \E t \in DOMAIN tasks : SAApplyFail(t)
  \/ \E t \in DOMAIN tasks : SARemove(t)
  \/ \E t \in DOMAIN tasks : SAPullOk(t)
  \/ \E t \in DOMAIN tasks : SAPullFail(t)

SpecUsers == InitUsers /\ [][NextUsers]_vars

\* ------------------------------------------------------------------------
\* A second device of the signed-in user writes the holiday to the remote
\* table while this client runs its syncAll passes and makes no local edit.
\* ------------------------------------------------------------------------
\* processSyncItem of the other device: the upsert of its holiday, under a
\* new name
OtherClientWrite ==
  /\ \E n \in Names :
       LET existing == GetIn(remote["holidays"], TheId)
           holiday == [id |-> TheId, name |-> n, userId |-> TheUser,
                       createdAt |-> IF existing = NoRec THEN now ELSE existing.created_at]
       IN /\ existing # NoRec => existing.name # n
          /\ remote' = RemoteUpsert(remote, "holidays", toSnakeCase(holiday))
  /\ emitted' = <<>>
  /\ last' = NoRec
  /\ UNCHANGED <<now, online, currentUser, db, syncQueue, nextId, configured, isSyncing,
                 lastSyncTimestamp, syncInterval, tasks, hist, calls, best, migrated, timers>>

NextOther ==
  \/ Tick
  \/ ManualSync
  \/ OtherClientWrite
  \/ \E t \in DOMAIN tasks : SAGetQueue(t)
  \/ \E t \in DOMAIN tasks : SAPullOk(t)
  \/ \E t \in DOMAIN tasks : SAPullFail(t)

SpecOther == InitStale /\ [][NextOther]_vars

\* ------------------------------------------------------------------------
\* A holiday with recipients on two devices of the signed-in user: this client
\* creates the holiday and recipients for it, the other device deletes the
\* holiday.
\* ------------------------------------------------------------------------
\* RecipientModal: a recipient is created on the page of the stored holiday
CreateRecipient(cap) ==
  /\ nextId["recipients"] <= MaxRecipients
  /\ Get("holidays", TheId) # NoRec
  /\ LocalEdit(RecipientServiceCreate(SvcState, TheId, 1), cap)

\* update({ deleted_at }) of one row by the other device
Tombstoned(row) == Spread(row, [deleted_at |-> now, updated_at |-> now])

\* HolidayService.delete on the other device, fully synchronised and pushed:
\* the delete entries of the recipients the remote holds for the holiday and
\* of the holiday itself are applied
OtherClientDelete ==
  /\ \E row \in Visible(remote["holidays"]) : row.id = TheId /\ row.deleted_at = NullTs
  /\ remote' = [remote EXCEPT
                  !["recipients"] = {IF row.holiday_id = TheId /\ row.deleted_at = NullTs
                                       THEN Tombstoned(row) ELSE row : row \in @},
                  !["holidays"] = PutIn(@, Tombstoned(GetIn(@, TheId)))]
  /\ emitted' = <<>>
  /\ last' = NoRec
  /\ UNCHANGED <<now, online, currentUser, db, syncQueue, nextId, configured, isSyncing,
                 lastSyncTimestamp, syncInterval, tasks, hist, calls, best, migrated, timers>>

NextOrphans ==
  \/ ManualSync
  \/ CreateHoliday(MaxStaleQueue)
  \/ CreateRecipient(MaxStaleQueue)
  \/ OtherClientDelete
  \/ \E t \in DOMAIN tasks : PQGetQueue(t)
  \/ \E t \in DOMAIN tasks : PQApplyOk(t)
  \/ \E t \in DOMAIN tasks : PQRemove(t)
  \/ \E t \in DOMAIN tasks : SAGetQueue(t)
  \/ \E t \in DOMAIN tasks : SAApplyOk(t)
  \/ \E t \in DOMAIN tasks : SARemove(t)
  \/ \E t \in DOMAIN tasks : SAPullOk(t)

SpecOrphans == InitStale /\ [][NextOrphans]_vars

\* ------------------------------------------------------------------------
\* MigrationService: a holiday created while signed out is moved into the
\* account at sign-in.  Every authenticated auth event reaches both listeners
\* of AUTH_STATE_CHANGED, SyncManager's and MigrationService's.
\* ------------------------------------------------------------------------
RECURSIVE SeqOfStore(_, _)
\* (await db.getAll(store)).filter(...) as the array the loops run over
SeqOfStore(entityType, S) ==
  IF S = {} THEN <<>>
  ELSE LET r == CHOOSE x \in S : \A y \in S : x.id <= y.id
       IN <<[entityType |-> entityType, rec |-> r]>> \o SeqOfStore(entityType, S \ {r})

\* MigrationService.getLocalDataWithoutUserId, in the order performMigration
\* goes through it
getLocalDataWithoutUserId(d) ==
  SeqOfStore("holidays", {h \in d["holidays"] : Field(h, "userId") = NoUser})
    \o SeqOfStore("recipients", {r \in d["recipients"] : Field(r, "userId") = NoUser})
    \o SeqOfStore("gifts", {g \in d["gifts"] : Field(g, "userId") = NoUser})

FreeCount(ts) == Cardinality({t \in DOMAIN ts : ts[t] = Idle})

\* a call of checkAndMigrate(userId) past the flag test, at its first await
NewMigration(userId) ==
  [NewTask("mig", "getData") EXCEPT !.got = [userId |-> userId, child |-> 0, rec |-> NoRec]]

InitMigrate ==
  /\ now = 1
  /\ online = TRUE
  /\ configured = TRUE
  /\ currentUser = NoUser
  /\ db = [s \in Stores |-> {}]
  /\ syncQueue = {}
  /\ nextId = [s \in Stores \cup {"syncQueue"} |-> 1]
  /\ isSyncing = FALSE
  /\ lastSyncTimestamp = NullTs
  /\ syncInterval = FALSE
  /\ remote = [s \in Stores |-> {}]
  /\ tasks = [t \in 1..MaxSlots |-> Idle]
  /\ hist = <<>>
  /\ emitted = <<>>
  /\ calls = 0
  /\ best = NoRec
  /\ migrated = {}
  /\ timers = 0
  /\ last = NoRec

\* a holiday created on the device before anyone signed in: it has no userId
CreateLocalHoliday ==
  /\ currentUser = NoUser
  /\ CreateHoliday(MaxQueue)

\* handleAuthChange (INITIAL_SESSION, SIGNED_IN or TOKEN_REFRESHED with a
\* user): SyncManager's listener runs startPeriodicSync(); syncAll(),
\* MigrationService's listener calls checkAndMigrate(user.id), which returns
\* at once when the key of the user is in localStorage
AuthEvent ==
  /\ configured
  /\ LET r == syncAll(tasks, TRUE, online)
         starts == ~SyncAllBlocked(isSyncing, TRUE, online)
         migrates == TheUser \notin migrated
     IN /\ FreeCount(tasks) >= (IF starts THEN 1 ELSE 0) + (IF migrates THEN 1 ELSE 0)
        /\ tasks' = IF migrates THEN Start(r.tasks, NewMigration(TheUser)) ELSE r.tasks
        /\ isSyncing' = r.isSyncing
        /\ emitted' = r.ev
  /\ currentUser' = TheUser
  /\ SetTimer(startPeriodicSync(Timer))
  /\ last' = NoRec
  /\ UNCHANGED <<now, online, db, syncQueue, nextId, configured, lastSyncTimestamp,
                 remote, hist, calls, best, migrated>>

\* localStorage.setItem(migrationKey, ...): the last line of checkAndMigrate
MigFinish(t) ==
  /\ migrated' = migrated \cup {tasks[t].got.userId}
  /\ SetTask(t, Idle)

\* await this.getLocalDataWithoutUserId() resolves; window.confirm answers
MigGetData(t) ==
  /\ At(t, "mig", "getData")
  /\ LET localData == getLocalDataWithoutUserId(db)
     IN IF Len(localData) = 0
          THEN MigFinish(t)
          ELSE \E shouldMigrate \in BOOLEAN :
                 IF shouldMigrate
                   THEN /\ SetTask(t, [tasks[t] EXCEPT !.pc = "update",
                                                       !.queue = localData, !.i = 1])
                        /\ UNCHANGED migrated
                   ELSE MigFinish(t)
  /\ emitted' = <<>>
  /\ last' = NoRec
  /\ UNCHANGED <<now, online, currentUser, db, syncQueue, nextId, configured, isSyncing,
                 lastSyncTimestamp, syncInterval, remote, hist, calls, best, timers>>

\* performMigration: await db.update(store, { ...record, userId }) resolves
MigUpdate(t) ==
  /\ At(t, "mig", "update")
  /\ LET updated == Spread(Spread(Item(t).rec, [userId |-> tasks[t].got.userId]),
                           [updatedAt |-> now])
     IN /\ db' = Put(db, Item(t).entityType, updated)
        /\ SetTask(t, [tasks[t] EXCEPT !.pc = "enqueue", !.got.rec = updated])
  /\ emitted' = <<>>
  /\ last' = NoRec
  /\ UNCHANGED <<now, online, currentUser, syncQueue, nextId, configured, isSyncing,
                 lastSyncTimestamp, syncInterval, remote, hist, calls, best, migrated, timers>>

\* performMigration: await this.syncManager.queueOperation('create', ...)
\* resolves, with the processQueue() it starts when online and signed in
MigEnqueue(t) ==
  /\ At(t, "mig", "enqueue")
  /\ LET st == queueOperation(SvcState, "create", Item(t).entityType, Item(t).rec.id,
                              tasks[t].got.rec)
         drains == online /\ AuthOK
         next == IF tasks[t].i < Len(tasks[t].queue)
                   THEN [tasks[t] EXCEPT !.pc = "update", !.i = @ + 1]
                   ELSE [tasks[t] EXCEPT !.pc = "drain"]
     IN /\ (drains /\ ~ProcessQueueBlocked(isSyncing, AuthOK)) => HasFree(tasks)
        /\ syncQueue' = st.q
        /\ nextId' = st.ids
        /\ hist' = HistFor(st.ids["syncQueue"] - 1)
        /\ tasks' = IF drains THEN processQueue([tasks EXCEPT ![t] = next], AuthOK)
                     ELSE [tasks EXCEPT ![t] = next]
  /\ emitted' = <<>>
  /\ last' = NoRec
  /\ UNCHANGED <<now, online, currentUser, db, configured, isSyncing, lastSyncTimestamp,
                 syncInterval, remote, calls, best, migrated, timers>>

\* performMigration: await this.syncManager.processQueue() is called
MigDrain(t) ==
  /\ At(t, "mig", "drain")
  /\ ~ProcessQueueBlocked(isSyncing, AuthOK) => HasFree(tasks)
  /\ tasks' = IF ProcessQueueBlocked(isSyncing, AuthOK)
                THEN [tasks EXCEPT ![t] = [@ EXCEPT !.pc = "wait"]]
                ELSE [tasks EXCEPT ![t] = [@ EXCEPT !.pc = "wait",
                                                     !.got.child = FreeSlot(tasks)],
                                   ![FreeSlot(tasks)] = NewTask("pq", "getQueue")]
  /\ emitted' = <<>>
  /\ last' = NoRec
  /\ UNCHANGED <<now, online, currentUser, db, syncQueue, nextId, configured, isSyncing,
                 lastSyncTimestamp, syncInterval, remote, hist, calls, best, migrated, timers>>

\* the awaited processQueue() has returned: DATA_LOADED, then the key is set
MigDone(t) ==
  /\ At(t, "mig", "wait")
  /\ tasks[t].got.child # 0 => tasks[tasks[t].got.child] = Idle
  /\ MigFinish(t)
  /\ emitted' = <<[type |-> "data:loaded", data |-> NoRec]>>
  /\ last' = NoRec
  /\ UNCHANGED <<now, online, currentUser, db, syncQueue, nextId, configured, isSyncing,
                 lastSyncTimestamp, syncInterval, remote, hist, calls, best, timers>>

NextMigrate ==
  \/ CreateLocalHoliday
  \/ AuthEvent
  \/ \E t \in DOMAIN tasks : MigGetData(t)
  \/ \E t \in DOMAIN tasks : MigUpdate(t)
  \/ \E t \in DOMAIN tasks : MigEnqueue(t)
  \/ \E t \in DOMAIN tasks : MigDrain(t)
  \/ \E t \in DOMAIN tasks : MigDone(t)
  \/ \E t \in DOMAIN tasks : PQGetQueue(t)
  \/ \E t \in DOMAIN tasks : PQApplyOk(t)
  \/ \E t \in DOMAIN tasks : PQRemove(t)
  \/ \E t \in DOMAIN tasks : SAGetQueue(t)
  \/ \E t \in DOMAIN tasks : SAApplyOk(t)
  \/ \E t \in DOMAIN tasks : SARemove(t)
  \/ \E t \in DOMAIN tasks : SAPullOk(t)

SpecMigrate == InitMigrate /\ [][NextMigrate]_vars

\* ------------------------------------------------------------------------
\* Application start with Supabase configured: App.init has called
\* authService.init(), syncManager.init() and awaits
\* authService.getCurrentUser(), while the auth events of the client arrive.
\* ------------------------------------------------------------------------
InitStartup ==
  /\ now = 1
  /\ online \in BOOLEAN
  /\ configured = TRUE
  /\ currentUser = NoUser
  /\ db = [s \in Stores |-> {}]
  /\ syncQueue = {}
  /\ nextId = [s \in Stores \cup {"syncQueue"} |-> 1]
  /\ isSyncing = FALSE
  /\ lastSyncTimestamp = NullTs
  /\ syncInterval = FALSE
  /\ remote = [s \in Stores |-> {}]
  /\ tasks = [t \in 1..MaxSlots |-> IF t = 1 THEN NewTask("gu", "getUser") ELSE Idle]
  /\ hist = <<>>
  /\ emitted = <<>>
  /\ calls = 0
  /\ best = NoRec
  /\ migrated = {}
  /\ timers = 0
  /\ last = NoRec

\* AuthService.getCurrentUser: await this.supabase.auth.getUser() resolves
\* with the user of a valid session, or with null (no session, a session the
\* server rejects, no network); this.currentUser = user, no event is emitted
GetCurrentUserReturns(t) ==
  /\ At(t, "gu", "getUser")
  /\ \E user \in {NoUser, TheUser} :
       /\ (user # NoUser) => online
       /\ currentUser' = user
  /\ SetTask(t, Idle)
  /\ emitted' = <<>>
  /\ last' = NoRec
  /\ UNCHANGED <<now, online, db, syncQueue, nextId, configured, isSyncing,
                 lastSyncTimestamp, syncInterval, remote, hist, calls, best, migrated,
                 timers>>

NextStartup ==
  \/ SignIn
  \/ SignOut
  \/ GoOnline
  \/ GoOffline
  \/ PeriodicSync
  \/ \E t \in DOMAIN tasks : GetCurrentUserReturns(t)
  \/ \E t \in DOMAIN tasks : SAGetQueue(t)
  \/ \E t \in DOMAIN tasks : SAPullOk(t)
  \/ \E t \in DOMAIN tasks : SAPullFail(t)

SpecStartup == InitStartup /\ [][NextStartup]_vars

\* ---------------------------------------------------------------- claims
Stored == Get("holidays", TheId)

\* the call has passed this.isSyncing = true and has not reached the end of
\* its body
Running(t) ==
  tasks[t] # Idle /\ (tasks[t].kind = "sa" \/ tasks[t].pc # "getQueue")

\* the queue entries the call has handed to processSyncItem in its loop
AppliedBy(t) ==
  IF tasks[t] = Idle THEN {}
  ELSE {tasks[t].queue[j].id : j \in {k \in DOMAIN tasks[t].queue : k < tasks[t].i}}
       \cup (IF tasks[t].pc \in {"remove", "drop", "updGet", "updPut"}
               THEN {Item(t).id} ELSE {})

\* C1: at most one pass, syncAll or processQueue, is executing its body at
\* any time, and no queue entry is applied to the remote store by two passes
\* that run concurrently.
C1_SingleFlight ==
  \A t1, t2 \in DOMAIN tasks :
    t1 # t2 =>
      /\ ~(Running(t1) /\ Running(t2))
      /\ (tasks[t1] # Idle /\ tasks[t2] # Idle) => AppliedBy(t1) \cap AppliedBy(t2) = {}

\* C2: a syncAll call made while isSyncing is true, while unauthenticated (no
\* auth service configured included) or while offline emits no event, makes no
\* remote call and leaves the queue, the local entities, the watermark,
\* isSyncing and the calls in flight unchanged.
C2_BlockedSyncAllIsNoOp ==
  [][ ( /\ last' # NoRec
        /\ last'.op = "syncAll"
        /\ (isSyncing \/ ~(configured /\ currentUser # NoUser) \/ ~online) )
      => ( /\ emitted' = <<>>
           /\ UNCHANGED <<syncQueue, db, lastSyncTimestamp, isSyncing, remote, tasks>> )
    ]_vars

\* a syncAll call that found a pass running and did nothing
C2_Witness ==
  /\ LastIs("syncAll")
  /\ isSyncing /\ online /\ configured /\ currentUser # NoUser
  /\ emitted = <<>>

\* C3: a queue entry whose remote apply fails on every attempt is attempted
\* exactly MAX_RETRIES times, by processQueue and the push of syncAll together,
\* before it is dropped: never a 4th time.
C3_ExactlyMaxRetries ==
  \A q \in DOMAIN hist :
    ~hist[q].ok =>
      /\ hist[q].fails <= MAX_RETRIES
      /\ hist[q].dropped => hist[q].fails = MAX_RETRIES

\* C4: once a remote apply of an entry has succeeded and the entry has been
\* removed, the entry is absent from the queue in every later state.
C4_GoneAfterSuccess ==
  \A q \in DOMAIN hist : hist[q].gone => q \notin Ids(syncQueue)

\* C5: an entry leaves the queue only in the step that follows a successful
\* remote apply of that entry, or in the step that drops it when its failed
\* attempts have reached MAX_RETRIES; no other step removes an entry.
C5_LeavesOnlyWhenDone ==
  [][ \A e \in syncQueue :
        e.id \notin Ids(syncQueue') =>
          \E t \in DOMAIN tasks :
            /\ tasks[t] # Idle
            /\ tasks'[t] # tasks[t]
            /\ tasks[t].pc \in {"remove", "drop"}
            /\ Item(t).id = e.id
            /\ tasks[t].pc = "remove" => hist[e.id].ok
            /\ tasks[t].pc = "drop" => hist[e.id].fails >= MAX_RETRIES
    ]_vars

\* an entry was dropped after its failed attempts
C5_Witness ==
  \E q \in DOMAIN hist : hist[q].dropped /\ ~hist[q].ok /\ q \notin Ids(syncQueue)


\* C6: after any sequence of upserts on one id (every call carrying an
\* updatedAt that is not ahead of the clock), the stored record holds the payload of the call with the
\* maximum comparison timestamp, the last applied of them on a tie.
C6_FinalIsMaxTimestampCall ==
  (calls > 0 /\ best.stamped) => Stored.name = best.name

\* C7: upsert returns 'created' and stores the incoming record when the id is
\* new, 'skipped' and leaves the store alone when the existing comparison
\* timestamp is strictly greater, and otherwise (ties included) 'updated' with
\* the existing fields overlaid by the incoming ones; pullFromServer emits the
\* created/updated event exactly when the outcome is not 'skipped'.
C7_UpsertOutcome ==
  LastIs("upsert") =>
    LET prev == last.prev
        data == last.data
    IN /\ prev = NoRec =>
            /\ last.action = "created"
            /\ DOMAIN Stored = DOMAIN data \cup {"createdAt"}
            /\ \A k \in DOMAIN data : (k # "createdAt" \/ data[k] # NullTs) => Stored[k] = data[k]
       /\ (prev # NoRec /\ CompareTs(prev) > CompareTs(data)) =>
            /\ last.action = "skipped"
            /\ Stored = prev
       /\ (prev # NoRec /\ CompareTs(data) >= CompareTs(prev)) =>
            /\ last.action = "updated"
            /\ DOMAIN Stored = DOMAIN prev \cup DOMAIN data \cup {"updatedAt"}
            /\ \A k \in DOMAIN data \ {"updatedAt"} : Stored[k] = data[k]
            /\ \A k \in DOMAIN prev \ (DOMAIN data \cup {"updatedAt"}) : Stored[k] = prev[k]
       /\ last.action = "skipped" => emitted = <<>>
       /\ last.action = "created" =>
            (Len(emitted) = 1 /\ emitted[1].type = "holiday:created" /\ emitted[1].data = Stored)
       /\ last.action = "updated" =>
            (Len(emitted) = 1 /\ emitted[1].type = "holiday:updated" /\ emitted[1].data = Stored)

\* an upsert whose incoming timestamp ties with the existing one was applied
C7_Witness ==
  /\ LastIs("upsert")
  /\ last.prev # NoRec
  /\ CompareTs(last.data) = CompareTs(last.prev)
  /\ last.action = "updated"
  /\ last.data.name # last.prev.name

\* C8: for one entity, no step replaces the remote row or the local record
\* by an older version: the n-th edit writes the name n at a later instant
\* than the edit before it, so the name of the row and of the record never
\* goes down.
C8_NoStaleClobber ==
  [][ /\ (GetIn(remote["holidays"], TheId) # NoRec /\ GetIn(remote'["holidays"], TheId) # NoRec)
          => GetIn(remote'["holidays"], TheId).name >= GetIn(remote["holidays"], TheId).name
      /\ (GetIn(db["holidays"], TheId) # NoRec /\ GetIn(db'["holidays"], TheId) # NoRec)
          => GetIn(db'["holidays"], TheId).name >= GetIn(db["holidays"], TheId).name
    ]_vars

\* C9: after HolidayService.delete(H) the local store holds no recipient
\* and no gift whose holidayId is H, and the holiday itself is gone.
C9_CascadeComplete ==
  LastIs("holidayDelete") =>
    /\ last.id \notin Ids(db["holidays"])
    /\ Refs(db, "recipients", last.id) = {}
    /\ Refs(db, "gifts", last.id) = {}

\* C10: HolidayService.delete(H) by a signed-in user on a holiday with N
\* recipients and M gifts (each gift attached to one of the N recipients)
\* enqueues exactly N+M+1 delete operations.
C10_CascadeEnqueuesAll ==
  (LastIs("holidayDelete") /\ last.authenticated /\ last.attached) =>
    last.enqueued = last.N + last.M + 1

\* C11: every local create, update or delete made by a domain service adds
\* exactly one queue entry with the operation, entityType and entityId of the
\* call, also when the user is signed out and the entity is stored with
\* userId = null.
C11_EveryMutationEnqueued ==
  (last # NoRec /\ Has(last, "svc")) =>
    Cardinality({q \in syncQueue :
                   /\ q.id >= last.from
                   /\ q.operation = last.svc.operation
                   /\ q.entityType = last.svc.entityType
                   /\ q.entityId = last.svc.entityId}) = 1

\* C12: when the remote apply of an entry has failed on MAX_RETRIES consecutive
\* attempts (and never succeeded), then once the pass that made the last
\* attempt has finished the entry is out of the queue, dropped; the step that
\* drops it emits exactly one 'sync error' event carrying the entry and leaves
\* the local stores unchanged.
C12_DroppedAfterThreeFailures ==
  /\ [](\A q \in DOMAIN hist :
          (hist[q].fails >= MAX_RETRIES /\ ~hist[q].ok /\ \A t \in DOMAIN tasks : tasks[t] = Idle)
            => (q \notin Ids(syncQueue) /\ hist[q].dropped))
  /\ [][ \A q \in DOMAIN hist :
           (~hist[q].dropped /\ hist'[q].dropped) =>
             /\ db' = db
             /\ Cardinality({k \in DOMAIN emitted' : emitted'[k].type = "sync:error"}) = 1
             /\ \E k \in DOMAIN emitted' :
                  emitted'[k].type = "sync:error" /\ emitted'[k].data = q ]_vars

\* C13: when a read from the remote store fails during a syncAll pass (the
\* row fetch or the tombstone fetch of any entity type), the pass is aborted,
\* a 'sync error' event is emitted and the watermark keeps its value.
C13_FailedReadAborts ==
  LastIs("readFailed") =>
    /\ tasks[last.t] = Idle
    /\ \E k \in DOMAIN emitted : emitted[k].type = "sync:error"
    /\ lastSyncTimestamp = last.watermark

\* C14: every pass that sets isSyncing clears it again, on success and on any
\* exception of the remote or the local store, so the engine never stays
\* stuck in Syncing: whenever isSyncing is set, a pass is in flight that will
\* clear it.
C14_NeverStuckSyncing ==
  isSyncing => \E t \in DOMAIN tasks : Running(t)

\* C15: isSyncing is true in every state in which a pass that has set it has
\* not finished: the flag is never cleared while a syncAll or processQueue
\* pass is still making remote or local-store calls.
C15_SyncingWhilePassRuns ==
  \A t \in DOMAIN tasks : Running(t) => isSyncing

\* the two queue entries are about the same entity
SameEntity(a, b) == a.entityType = b.entityType /\ a.entityId = b.entityId

\* C16: within a pass, two entries for the same entity are attempted in the
\* order in which they were enqueued (queue ids are handed out in enqueue
\* order), also when they were enqueued at the same instant.
C16_AttemptedInEnqueueOrder ==
  \A t \in DOMAIN tasks :
    tasks[t] # Idle =>
      \A i, j \in DOMAIN tasks[t].queue :
        (i < j /\ j <= tasks[t].i /\ SameEntity(tasks[t].queue[i], tasks[t].queue[j]))
          => tasks[t].queue[i].id < tasks[t].queue[j].id

\* C17: the engine never removes a row from the remote store: the set of
\* remote row ids never shrinks, and the step that applies a delete entry
\* leaves the row in place with deleted_at set (only deleted_at and the
\* updated_at of the trigger change).
C17_NeverHardDeletes ==
  [][ /\ \A s \in Stores : Ids(remote[s]) \subseteq Ids(remote'[s])
      /\ \A t \in DOMAIN tasks :
           ( /\ tasks[t] # Idle
             /\ tasks[t].pc = "apply"
             /\ tasks'[t] # Idle
             /\ tasks'[t].pc = "remove"
             /\ Item(t).operation = "delete"
             /\ Item(t).entityId \in Ids(remote[Item(t).entityType]) )
           => LET old == GetIn(remote[Item(t).entityType], Item(t).entityId)
                  new == GetIn(remote'[Item(t).entityType], Item(t).entityId)
              IN /\ new # NoRec
                 /\ new.deleted_at # NullTs
                 /\ DOMAIN new = DOMAIN old
                 /\ \A k \in DOMAIN old \ {"deleted_at", "updated_at"} : new[k] = old[k]
    ]_vars

\* a delete entry was applied to a row of the remote store
C17_Witness ==
  \E row \in remote["holidays"] :
    /\ row.deleted_at # NullTs
    /\ row.id \notin Ids(db["holidays"])
    /\ \A q \in syncQueue : q.operation # "delete"

\* what the last iteration of a processQueue loop does with its entry, by the
\* await it is at
FinalOutcome(pc) ==
  CASE pc = "remove" -> "removed"
    [] pc = "drop" -> "dropped"
    [] pc = "updPut" -> "bumped"
    [] OTHER -> "lost"

\* the outcomes of all iterations of the processQueue call t that is about to end
Outcomes(t) == Append(tasks[t].res, FinalOutcome(tasks[t].pc))

CountOf(out, o) == Cardinality({k \in DOMAIN out : out[k] = o})

\* C18: every processQueue pass over a non-empty queue ends by emitting
\* exactly one 'sync completed' event, with successCount = the entries applied
\* and removed and errorCount = the entries dropped at MAX_RETRIES; these and
\* the entries left with an incremented retry count add up to the entries read.
C18_CompletedWithCounts ==
  [][ \A t \in DOMAIN tasks :
        ( /\ tasks[t] # Idle
          /\ tasks[t].kind = "pq"
          /\ tasks[t].pc # "getQueue"
          /\ tasks'[t] = Idle )
        => /\ Cardinality({k \in DOMAIN emitted' : emitted'[k].type = "sync:completed"}) = 1
           /\ \E k \in DOMAIN emitted' :
                /\ emitted'[k].type = "sync:completed"
                /\ emitted'[k].data =
                     [successCount |-> CountOf(Outcomes(t), "removed"),
                      errorCount |-> CountOf(Outcomes(t), "dropped")]
           /\ CountOf(Outcomes(t), "removed") + CountOf(Outcomes(t), "dropped")
                + CountOf(Outcomes(t), "bumped") = Len(tasks[t].queue)
    ]_vars

\* C19: the push of syncAll treats an entry as the loop of processQueue does:
\* when the remote apply of an entry fails in the push, the entry's retries
\* are incremented, or, when that brings them to MAX_RETRIES, the entry is
\* dropped and 'sync error' is emitted; the pass goes on either way.
C19_PushCountsRetries ==
  [][ \A t \in DOMAIN tasks :
        ( /\ tasks[t] # Idle
          /\ tasks[t].kind = "sa"
          /\ tasks[t].pc = "apply"
          /\ hist'[Item(t).id].fails = hist[Item(t).id].fails + 1 )
        => /\ tasks'[t] # Idle
           /\ IF DropsAt(Field(Item(t), "retries") + 1)
                THEN /\ Item(t).id \notin Ids(syncQueue')
                     /\ \E k \in DOMAIN emitted' : emitted'[k].type = "sync:error"
                ELSE /\ Item(t).id \in Ids(syncQueue)
                        => ( /\ Item(t).id \in Ids(syncQueue')
                             /\ GetIn(syncQueue', Item(t).id).retries
                                  = Field(Item(t), "retries") + 1 )
    ]_vars

\* C20: in every syncAll pass 'sync started' is emitted before any remote
\* call, all push attempts precede the first pull, and the pulls run in the
\* order holidays, recipients, gifts, one store after the other.
C20_SyncAllOrder ==
  [][ \A t \in DOMAIN tasks :
        \* the step that starts the pass emits 'sync started' and calls nothing
        /\ (tasks[t] = Idle /\ tasks'[t] # Idle /\ tasks'[t].kind = "sa")
             => /\ \E k \in DOMAIN emitted' : emitted'[k].type = "sync:started"
                /\ remote' = remote
                /\ tasks'[t].pc = "getQueue"
        \* the pulls start with the first store, after the push
        /\ (tasks[t] # Idle /\ tasks[t].kind = "sa" /\ tasks[t].pc # "pull"
              /\ tasks'[t] # Idle /\ tasks'[t].pc = "pull")
             => tasks'[t].i = 1
        \* no push attempt after a pull
        /\ (tasks[t] # Idle /\ tasks[t].kind = "sa" /\ tasks[t].pc = "pull")
             => (tasks'[t] = Idle \/ tasks'[t].pc = "pull")
        \* the n-th pull reads the n-th store, and the pass ends after the third
        /\ (tasks[t] # Idle /\ tasks[t].kind = "sa" /\ tasks[t].pc = "pull"
              /\ tasks'[t] # tasks[t] /\ last' # NoRec /\ last'.op = "pull")
             => /\ last'.entityType = <<"holidays", "recipients", "gifts">>[tasks[t].i]
                /\ IF tasks[t].i < 3
                     THEN tasks'[t] # Idle /\ tasks'[t].i = tasks[t].i + 1
                     ELSE tasks'[t] = Idle
    ]_vars

\* a syncAll pass pushed an entry and has pulled all three stores
C20_Witness ==
  /\ LastIs("pull")
  /\ last.entityType = "gifts"
  /\ \E k \in DOMAIN emitted : emitted[k].type = "sync:completed"
  /\ remote["holidays"] # {}
  /\ lastSyncTimestamp # NullTs

\* C21: after the pull of an entity type, every id the remote reported as
\* tombstoned is absent from the local store; for each of them that existed
\* locally exactly one deletion event was emitted, for the others none, and
\* no other local record was deleted.
C21_TombstonesApplied ==
  LET DeleteEventsFor(id) ==
        {k \in DOMAIN emitted :
           /\ emitted[k].type \in {"holiday:deleted", "recipient:deleted", "gift:deleted"}
           /\ emitted[k].data = id}
  IN
  LastIs("pull") =>
    /\ \A id \in last.tomb : id \notin Ids(db[last.entityType])
    /\ \A id \in last.tomb \cap last.before : Cardinality(DeleteEventsFor(id)) = 1
    /\ \A id \in last.tomb \ last.before : DeleteEventsFor(id) = {}
    /\ Ids(db[last.entityType]) = last.before \ last.tomb

\* a pull met a tombstone for a record the local store still held
C21_Witness ==
  /\ LastIs("pull")
  /\ last.tomb \cap last.before # {}

\* the terminal events among the events of a step
TerminalEvents(ev) ==
  {k \in DOMAIN ev : ev[k].type \in {"sync:completed", "sync:error"}}

\* C22: every 'sync started' is followed, before the next 'sync started', by
\* exactly one terminal event of that pass: no pass starts while another has
\* started and not ended, a pass that is still running has emitted no
\* 'sync error', and the step that ends a pass emits exactly one of
\* 'sync completed' and 'sync error'.
C22_OneTerminalEventPerPass ==
  /\ [][ (\E k \in DOMAIN emitted' : emitted'[k].type = "sync:started")
           => \A t \in DOMAIN tasks : ~Running(t) ]_vars
  /\ [](\A t \in DOMAIN tasks : Running(t) => CountOf(tasks[t].res, "dropped") = 0)
  /\ [][ \A t \in DOMAIN tasks :
           (Running(t) /\ ~Running(t)') => Cardinality(TerminalEvents(emitted')) = 1 ]_vars

\* the queue entry with the id is in the sync queue
InQueue(q) == \E e \in syncQueue : e.id = q

\* C23: while the client stays online and signed in, the periodic timer exists
\* and no remote apply fails, every entry that is in the queue is eventually
\* applied to the remote and removed from the queue.
C23_EntriesEventuallyApplied ==
  [](online /\ currentUser # NoUser /\ syncInterval /\ SumFails(hist) = 0)
    => \A q \in 1..MaxQueue :
         [](InQueue(q) => <>(~InQueue(q) /\ q \in DOMAIN hist /\ hist[q].ok))

\* the call t is the one whose remote apply resolved in the step
Applied(t) ==
  /\ tasks[t] # Idle
  /\ tasks[t].pc = "apply"
  /\ tasks'[t] # tasks[t]
  /\ remote' # remote

\* C24: a queued create or update is written to the remote only under the
\* user id the entry recorded when it was enqueued: the row a remote apply
\* writes carries the entry's userId as its user_id.
C24_AppliedUnderEnqueuingUser ==
  [][ \A t \in DOMAIN tasks :
        (Applied(t) /\ Item(t).operation \in {"create", "update"})
          => GetIn(remote'[Item(t).entityType], Item(t).entityId).user_id
               = Item(t).userId ]_vars

\* the step makes the call t issue a remote call: processSyncItem for the
\* next entry, or the queries of pullFromServer for the next store
IssuesRemoteCall(t) ==
  /\ tasks'[t] # Idle
  /\ tasks'[t] # tasks[t]
  /\ tasks'[t].pc \in {"apply", "pull"}

\* C25: while the session is unauthenticated the engine issues no remote
\* apply and no remote read, also not from a pass that was in flight when the
\* session ended.
C25_NoRemoteCallSignedOut ==
  [][ currentUser = NoUser => \A t \in DOMAIN tasks : ~IssuesRemoteCall(t) ]_vars

\* the sync queue holds a delete entry for the entity
PendingDelete(entityType, id) ==
  \E e \in syncQueue :
    e.operation = "delete" /\ e.entityType = entityType /\ e.entityId = id

\* C26: a holiday that was deleted locally and whose delete entry is still in
\* the sync queue is not stored again locally by any step, a pull included.
C26_PendingDeleteNotRecreated ==
  [][ \A id \in 1..MaxHolidays :
        (PendingDelete("holidays", id) /\ Get("holidays", id) = NoRec)
          => GetIn(db'["holidays"], id) = NoRec ]_vars

\* the live remote rows of the store that the incremental query of the next
\* pull leaves out: updated_at is older than the recorded watermark
BelowWatermark(entityType) ==
  {row \in Visible(remote[entityType]) :
     /\ row.deleted_at = NullTs
     /\ lastSyncTimestamp # NullTs
     /\ row.updated_at < lastSyncTimestamp}

\* C27: no remote change is lost by the watermark: every live remote holiday
\* that later pulls no longer fetch, its updated_at being older than the
\* recorded watermark, is stored locally with the content of the remote row,
\* also when another client wrote it while a syncAll pass was running.
C27_NothingBelowWatermarkLost ==
  \A row \in BelowWatermark("holidays") :
    /\ Get("holidays", row.id) # NoRec
    /\ Get("holidays", row.id).name = row.name

\* every stored recipient names a stored holiday, every stored gift a stored
\* recipient
ReferencesResolve(d) ==
  /\ \A r \in d["recipients"] : r.holidayId \in Ids(d["holidays"])
  /\ \A g \in d["gifts"] : g.recipientId \in Ids(d["recipients"])

\* C28: when a syncAll pass has completed, with the pull of the last store
\* done, every local recipient's holidayId names an existing local holiday
\* and every local gift's recipientId an existing local recipient.
C28_ReferencesAfterSyncAll ==
  (LastIs("pull") /\ last.entityType = "gifts") => ReferencesResolve(db)

\* C29: whatever authenticated auth events arrive, also while an earlier
\* checkAndMigrate is awaiting, the migration enqueues exactly one create
\* entry for each local holiday it moves into the account: never more
\* entries than moved holidays, and as many once no call is in progress.
C29_MigratesOncePerUser ==
  LET \* the local holidays that carry a user id
      Owned == {h \in db["holidays"] : Field(h, "userId") # NoUser}
      \* the queue entries handed out so far, removed ones included
      EverEnqueued == nextId["syncQueue"] - 1
      \* a call of checkAndMigrate is between its flag test and its last line
      Migrating == \E t \in DOMAIN tasks : tasks[t] # Idle /\ tasks[t].kind = "mig"
  IN /\ EverEnqueued <= Cardinality(Owned)
     /\ ~Migrating => EverEnqueued = Cardinality(Owned)

\* C30: at most one periodic sync timer exists at any time, and none while
\* the session is unauthenticated.
C30_OneTimerOnlyWhileSignedIn ==
  /\ timers <= 1
  /\ currentUser = NoUser => timers = 0

=============================================================================
